---- MODULE Spec2Model ----
(***************************************************************************)
(* The `download-src` subcommand of deployctl                              *)
(* (src/src/subcommands/download_src.ts).                                  *)
(*                                                                         *)
(* A string is a sequence of tokens; a token is a short literal piece of   *)
(* text ("/", ".", "src", "%2F", ...) and the string is the concatenation  *)
(* of its tokens.  No token contains "/" or "." except the tokens "/" and  *)
(* "." themselves, so prefix tests, splitting on "/" and dot-segment       *)
(* handling are exact on token sequences.                                  *)
(***************************************************************************)
EXTENDS Integers, Sequences, FiniteSets, TLC

(***************************************************************************)
(* Bounds                                                                  *)
(***************************************************************************)
\* longest path of a specifier, in tokens (the leading "/" included)
MaxPathLen == 7
\* most entries the deployment stream yields before it ends or fails
MaxEntries == 3

(***************************************************************************)
(* Strings                                                                 *)
(***************************************************************************)
StartsWith(s, p) ==
    /\ Len(s) >= Len(p)
    /\ SubSeq(s, 1, Len(p)) = p

Drop(s, n) == SubSeq(s, n + 1, Len(s))

Last(s) == s[Len(s)]

Front(s) == SubSeq(s, 1, Len(s) - 1)

\* String.prototype.split("/"): the pieces between the separators
RECURSIVE SplitSlash(_)
SplitSlash(s) ==
    IF s = <<>> THEN << <<>> >>
    ELSE LET rest == SplitSlash(Tail(s))
         IN IF Head(s) = "/"
            THEN << <<>> >> \o rest
            ELSE << <<Head(s)>> \o Head(rest) >> \o Tail(rest)

\* Array.prototype.join("/")
RECURSIVE JoinSlash(_)
JoinSlash(segs) ==
    IF segs = <<>> THEN <<>>
    ELSE IF Len(segs) = 1 THEN Head(segs)
    ELSE Head(segs) \o <<"/">> \o JoinSlash(Tail(segs))

(***************************************************************************)
(* new URL(entrySpecifier).pathname for a file: URL with an empty host.    *)
(* The WHATWG path state: "." and ".." segments (also written with %2e)    *)
(* are resolved while parsing; every other percent escape is kept.         *)
(***************************************************************************)
IsDot(tok) == tok \in {".", "%2e", "%2E"}

IsSingleDotSegment(seg) == Len(seg) = 1 /\ IsDot(seg[1])

IsDoubleDotSegment(seg) == Len(seg) = 2 /\ IsDot(seg[1]) /\ IsDot(seg[2])

RECURSIVE UrlPathSegments(_, _)
UrlPathSegments(segs, acc) ==
    IF segs = <<>> THEN acc
    ELSE LET seg    == Head(segs)
             isLast == Len(segs) = 1
         IN IF IsDoubleDotSegment(seg)
            THEN LET shortened == IF acc = <<>> THEN acc ELSE Front(acc)
                 IN UrlPathSegments(Tail(segs),
                        IF isLast THEN Append(shortened, <<>>) ELSE shortened)
            ELSE IF IsSingleDotSegment(seg)
            THEN UrlPathSegments(Tail(segs),
                        IF isLast THEN Append(acc, <<>>) ELSE acc)
            ELSE UrlPathSegments(Tail(segs), Append(acc, seg))

\* raw is the text after "file://"; it starts with "/"
UrlPathname(raw) ==
    <<"/">> \o JoinSlash(UrlPathSegments(SplitSlash(Tail(raw)), <<>>))

(***************************************************************************)
(* std/path (posix): fromFileUrl, normalize, join                          *)
(***************************************************************************)
DecodeToken(tok) ==
    CASE tok \in {"%2F", "%2f"} -> "/"
      [] tok \in {"%2e", "%2E"} -> "."
      [] OTHER -> tok

\* decodeURIComponent
decodeURIComponent(s) == [i \in 1..Len(s) |-> DecodeToken(s[i])]

fromFileUrl(pathname) == decodeURIComponent(pathname)

RECURSIVE normalizeString(_, _, _)
normalizeString(segs, allowAboveRoot, res) ==
    IF segs = <<>> THEN res
    ELSE LET seg == Head(segs)
         IN IF seg = <<>> \/ seg = <<".">>
            THEN normalizeString(Tail(segs), allowAboveRoot, res)
            ELSE IF seg = <<".", ".">>
            THEN IF res # <<>> /\ Last(res) # <<".", ".">>
                 THEN normalizeString(Tail(segs), allowAboveRoot, Front(res))
                 ELSE IF allowAboveRoot
                 THEN normalizeString(Tail(segs), allowAboveRoot, Append(res, seg))
                 ELSE normalizeString(Tail(segs), allowAboveRoot, res)
            ELSE normalizeString(Tail(segs), allowAboveRoot, Append(res, seg))

normalize(path) ==
    IF path = <<>> THEN <<".">>
    ELSE LET isAbsolute        == Head(path) = "/"
             trailingSeparator == Last(path) = "/"
             body   == JoinSlash(normalizeString(SplitSlash(path), ~isAbsolute, <<>>))
             dotted == IF body = <<>> /\ ~isAbsolute THEN <<".">> ELSE body
             tailed == IF dotted # <<>> /\ trailingSeparator
                       THEN dotted \o <<"/">> ELSE dotted
         IN IF isAbsolute THEN <<"/">> \o tailed ELSE tailed

join(a, b) ==
    LET joined == IF a = <<>> THEN b
                  ELSE IF b = <<>> THEN a
                  ELSE a \o <<"/">> \o b
    IN IF joined = <<>> THEN <<".">> ELSE normalize(joined)

(***************************************************************************)
(* getFilePathToSave                                                       *)
(***************************************************************************)
Null == [t |-> "null"]
AssertionError == [t |-> "AssertionError"]
Path(p) == [t |-> "path", s |-> p]

\* assert(specifier.pathname.startsWith("/src"), ...)
PathnameAccepted(pathname) == StartsWith(pathname, <<"/", "src">>)

\* path.replace(new RegExp("^/src/"), "")
RemoveSrc(path) ==
    IF StartsWith(path, <<"/", "src", "/">>) THEN Drop(path, 3) ELSE path

\* variant: the protocol of the specifier is not looked at
getFilePathToSave_AnyProtocol(entrySpecifier, dir) ==
    LET pathname == UrlPathname(entrySpecifier.raw)
    IN IF ~PathnameAccepted(pathname) THEN AssertionError
       ELSE Path(join(dir, RemoveSrc(fromFileUrl(pathname))))

getFilePathToSave(entrySpecifier, dir) ==
    IF entrySpecifier.protocol # "file:" THEN Null
    ELSE LET pathname == UrlPathname(entrySpecifier.raw)
         IN IF ~PathnameAccepted(pathname) THEN AssertionError
            ELSE Path(join(dir, RemoveSrc(fromFileUrl(pathname))))

(***************************************************************************)
(* Values of the raw arguments (src/args.ts `Args`): JavaScript values     *)
(* tagged with their typeof                                                *)
(***************************************************************************)
Undefined == [t |-> "undefined"]
Str(s) == [t |-> "string", s |-> s]
Num(n) == [t |-> "number", n |-> n]

typeof(v) == v.t

DigitToken(d) ==
    CASE d = 0 -> "0" [] d = 1 -> "1" [] d = 2 -> "2" [] d = 3 -> "3"
      [] d = 4 -> "4" [] d = 5 -> "5" [] d = 6 -> "6" [] d = 7 -> "7"
      [] d = 8 -> "8" [] d = 9 -> "9"

RECURSIVE Decimal(_)
Decimal(n) ==
    IF n < 10 THEN <<DigitToken(n)>>
    ELSE Append(Decimal(n \div 10), DigitToken(n % 10))

\* (string | number).toString()
toString(v) == IF typeof(v) = "number" THEN Decimal(v.n) ELSE v.s

\* rawArgs._.at(0)?.toString()
FirstPositional(positional) ==
    IF positional = <<>> THEN Undefined ELSE Str(toString(positional[1]))

\* token ?? null
OrNull(v) == IF typeof(v) = "undefined" THEN Null ELSE v

\* the condition of a JavaScript `cond ? a : b` on a string | null
Truthy(v) == typeof(v) = "string" /\ v.s # <<>>

(***************************************************************************)
(* parseArgsForDownloadSrcSubcommand                                       *)
(***************************************************************************)
HelpMode == [mode |-> "help"]

DownloadMode(outputTo, deploymentId, token) ==
    [mode |-> "download", outputTo |-> outputTo,
     deploymentId |-> deploymentId, token |-> token]

ToStdout == [to |-> "stdout"]
ToFs(dir) == [to |-> "fs", dir |-> dir]

\* error(message) of src/error.ts: prints the message and exits with status 1
error(message) == [mode |-> "exit", code |-> 1, message |-> message]

\* variant: the deployment id is checked before the help flag
parseArgs_IdBeforeHelp(raw) ==
    LET deploymentId == FirstPositional(raw.positional)
        outputDir    == raw.outputDir
    IN IF deploymentId = Undefined
       THEN error("Deployment ID is required but not provided")
       ELSE IF raw.help THEN HelpMode
       ELSE IF raw.stdout /\ typeof(outputDir) = "string"
       THEN DownloadMode(ToStdout, deploymentId.s, OrNull(raw.token))
       ELSE IF typeof(outputDir) = "string"
       THEN DownloadMode(ToFs(outputDir.s), deploymentId.s, OrNull(raw.token))
       ELSE DownloadMode(ToStdout, deploymentId.s, OrNull(raw.token))

\* variant: the output directory is looked at before the stdout flag
parseArgs_DirBeforeStdout(raw) ==
    IF raw.help THEN HelpMode
    ELSE LET deploymentId == FirstPositional(raw.positional)
             outputDir    == raw.outputDir
         IN IF deploymentId = Undefined
            THEN error("Deployment ID is required but not provided")
            ELSE IF typeof(outputDir) = "string"
            THEN DownloadMode(ToFs(outputDir.s), deploymentId.s, OrNull(raw.token))
            ELSE DownloadMode(ToStdout, deploymentId.s, OrNull(raw.token))

\* variant: a missing deployment id is not rejected
parseArgs_NoIdCheck(raw) ==
    IF raw.help THEN HelpMode
    ELSE LET deploymentId == IF raw.positional = <<>> THEN Str(<<"undefined">>)
                             ELSE FirstPositional(raw.positional)
             outputDir    == raw.outputDir
         IN IF raw.stdout /\ typeof(outputDir) = "string"
            THEN DownloadMode(ToStdout, deploymentId.s, OrNull(raw.token))
            ELSE IF typeof(outputDir) = "string"
            THEN DownloadMode(ToFs(outputDir.s), deploymentId.s, OrNull(raw.token))
            ELSE DownloadMode(ToStdout, deploymentId.s, OrNull(raw.token))

\* variant: the output directory is tested for truthiness, not for its type
parseArgs_TruthyDir(raw) ==
    IF raw.help THEN HelpMode
    ELSE LET deploymentId == FirstPositional(raw.positional)
             outputDir    == raw.outputDir
         IN IF deploymentId = Undefined
            THEN error("Deployment ID is required but not provided")
            ELSE IF raw.stdout /\ Truthy(outputDir)
            THEN DownloadMode(ToStdout, deploymentId.s, OrNull(raw.token))
            ELSE IF Truthy(outputDir)
            THEN DownloadMode(ToFs(outputDir.s), deploymentId.s, OrNull(raw.token))
            ELSE DownloadMode(ToStdout, deploymentId.s, OrNull(raw.token))

parseArgsForDownloadSrcSubcommand(raw) ==
    IF raw.help THEN HelpMode
    ELSE LET deploymentId == FirstPositional(raw.positional)
             outputDir    == raw.outputDir
         IN IF deploymentId = Undefined
            THEN error("Deployment ID is required but not provided")
            ELSE IF raw.stdout /\ typeof(outputDir) = "string"
            THEN DownloadMode(ToStdout, deploymentId.s, OrNull(raw.token))
            ELSE IF typeof(outputDir) = "string"
            THEN DownloadMode(ToFs(outputDir.s), deploymentId.s, OrNull(raw.token))
            ELSE DownloadMode(ToStdout, deploymentId.s, OrNull(raw.token))

\* args.token ? API.fromToken(args.token) : API.withTokenProvisioner(...)
MakeApi(token) ==
    IF Truthy(token) THEN [via |-> "fromToken", token |-> token.s]
    ELSE [via |-> "withTokenProvisioner"]

(***************************************************************************)
(* State                                                                   *)
(***************************************************************************)
VARIABLES
    rawArgs,    \* the raw arguments handed to the subcommand
    pc,         \* where the subcommand stands (the await it is suspended at)
    args,       \* the result of parseArgsForDownloadSrcSubcommand
    exitCode,   \* status passed to Deno.exit, NotExited while running
    api,        \* the API client downloadSrc built
    yielded,    \* the entries the stream has yielded so far, in order
    pending,    \* the Deno.writeTextFile calls in flight
    files,      \* the files written under the output directory
    log,        \* everything shown to the user and every I/O step, in order
    raised,     \* the error the subcommand's promise rejected with
    call        \* one direct call of getFilePathToSave: inputs and result

vars == <<rawArgs, pc, args, exitCode, api, yielded, pending, files, log,
          raised, call>>

NotExited == -1
NoArgs == [mode |-> "unparsed"]
NoApi == [via |-> "none"]
NoError == [name |-> "none", during |-> "none", isError |-> FALSE]
NoCall == [specifier |-> [protocol |-> "none", raw |-> <<>>],
           dir |-> <<>>, result |-> [t |-> "none"]]
NotCalled == [t |-> "pending"]

Ev(ev, i, arg) == [ev |-> ev, i |-> i, arg |-> arg]

(***************************************************************************)
(* Inputs                                                                  *)
(***************************************************************************)
Positionals ==
    { <<>>,
      << Str(<<"abcd1234">>) >>,
      << Num(42), Str(<<"extra">>) >> }

OutputDirs == { Undefined, Str(<<>>), Str(<<".", "/", "out">>) }

Tokens == { Undefined, Str(<<>>), Str(<<"mytoken">>) }

RawArgsSet ==
    [ help : BOOLEAN, stdout : BOOLEAN, outputDir : OutputDirs,
      token : Tokens, positional : Positionals ]

FileUrl(raw) == [protocol |-> "file:", raw |-> raw]
HttpsUrl(raw) == [protocol |-> "https:", raw |-> raw]

Entry(specifier, source) ==
    [specifier |-> specifier, kind |-> "module", source |-> source]

\* what the deployment stream may yield
Entries ==
    { Entry(FileUrl(<<"/", "src", "/", "a">>), "source of a"),
      Entry(FileUrl(<<"/", "src", "/", "b", "/", "a">>), "source of b/a"),
      Entry(FileUrl(<<"/", "a">>), "source of /a"),
      Entry(HttpsUrl(<<"/", "src", "/", "a">>), "source of remote a") }

\* failures of the API client and of the filesystem
ApiError(during) == [name |-> "APIError", during |-> during, isError |-> TRUE]
FsError(during) == [name |-> "FsError", during |-> during, isError |-> TRUE]
AssertError == [name |-> "AssertionError", during |-> "map", isError |-> TRUE]

Init ==
    /\ rawArgs \in RawArgsSet
    /\ pc = "start"
    /\ args = NoArgs
    /\ exitCode = NotExited
    /\ api = NoApi
    /\ yielded = <<>>
    /\ pending = <<>>
    /\ files = {}
    /\ log = <<>>
    /\ raised = NoError
    /\ call = NoCall

(***************************************************************************)
(* The default export: parse, then help, usage error or downloadSrc up to  *)
(* `await api.downloadDeployment(...)`                                     *)
(***************************************************************************)
RunHelp ==
    /\ pc = "start"
    /\ parseArgsForDownloadSrcSubcommand(rawArgs).mode = "help"
    /\ args' = parseArgsForDownloadSrcSubcommand(rawArgs)
    /\ log' = Append(log, Ev("console.log", 0, "help"))
    /\ exitCode' = 0
    /\ pc' = "exited"
    /\ UNCHANGED <<rawArgs, api, yielded, pending, files, raised, call>>

RunUsageError ==
    /\ pc = "start"
    /\ parseArgsForDownloadSrcSubcommand(rawArgs).mode = "exit"
    /\ args' = parseArgsForDownloadSrcSubcommand(rawArgs)
    /\ log' = Append(log, Ev("error", 0, args'.message))
    /\ exitCode' = args'.code
    /\ pc' = "exited"
    /\ UNCHANGED <<rawArgs, api, yielded, pending, files, raised, call>>

RunDownload ==
    /\ pc = "start"
    /\ parseArgsForDownloadSrcSubcommand(rawArgs).mode = "download"
    /\ args' = parseArgsForDownloadSrcSubcommand(rawArgs)
    /\ api' = MakeApi(args'.token)
    /\ pc' = "await_downloadDeployment"
    /\ UNCHANGED <<rawArgs, exitCode, yielded, pending, files, log, raised, call>>

(***************************************************************************)
(* downloadSrc after the stream is obtained: the switch on outputTo, then  *)
(* downloadToStdout up to its first `for await` request, or downloadToFs   *)
(* up to `await Deno.mkdir`                                                *)
(***************************************************************************)
DownloadDeploymentResolves ==
    /\ pc = "await_downloadDeployment"
    /\ IF args.outputTo.to = "stdout"
       THEN /\ log' = Append(log, Ev("request", 1, "next"))
            /\ pc' = "stdout_await_next"
       ELSE /\ log' = log \o << Ev("info", 0, "Ensuring the directory exists"),
                                Ev("mkdir", 0, args.outputTo.dir) >>
            /\ pc' = "await_mkdir"
    /\ UNCHANGED <<rawArgs, args, exitCode, api, yielded, pending, files, raised, call>>

\* the token provisioner or the request fails: nothing catches it
DownloadDeploymentRejects ==
    /\ pc = "await_downloadDeployment"
    /\ raised' = ApiError("request")
    /\ pc' = "rejected"
    /\ UNCHANGED <<rawArgs, args, exitCode, api, yielded, pending, files, log, call>>

(***************************************************************************)
(* downloadToStdout                                                        *)
(***************************************************************************)
StdoutNextEntry ==
    /\ pc = "stdout_await_next"
    /\ Len(yielded) < MaxEntries
    /\ \E entry \in Entries :
        LET i == Len(yielded) + 1
        IN /\ yielded' = Append(yielded, entry)
           /\ log' = log \o << Ev("console.log", i, entry),
                               Ev("request", i + 1, "next") >>
    /\ UNCHANGED <<rawArgs, pc, args, exitCode, api, pending, files, raised, call>>

StdoutNextDone ==
    /\ pc = "stdout_await_next"
    /\ pc' = "returned"
    /\ UNCHANGED <<rawArgs, args, exitCode, api, yielded, pending, files, log, raised, call>>

\* no try/catch in downloadToStdout, downloadSrc or the default export
StdoutNextThrows ==
    /\ pc = "stdout_await_next"
    /\ raised' = ApiError("iterate")
    /\ pc' = "rejected"
    /\ UNCHANGED <<rawArgs, args, exitCode, api, yielded, pending, files, log, call>>

(***************************************************************************)
(* downloadToFs                                                            *)
(***************************************************************************)
\* catch (err) { if (err instanceof Error) spinner.fail(...); throw err; }
Catch(err, soFar) ==
    /\ log' = IF err.isError THEN Append(soFar, Ev("fail", 0, err.name)) ELSE soFar
    /\ raised' = err
    /\ pc' = "rejected"

MkdirResolves ==
    /\ pc = "await_mkdir"
    /\ log' = log \o << Ev("info", 0, "already exists or has just been created"),
                        Ev("info", 0, "Starting download"),
                        Ev("request", 1, "next") >>
    /\ pc' = "fs_await_next"
    /\ UNCHANGED <<rawArgs, args, exitCode, api, yielded, pending, files, raised, call>>

MkdirRejects ==
    /\ pc = "await_mkdir"
    /\ Catch(FsError("mkdir"), log)
    /\ UNCHANGED <<rawArgs, args, exitCode, api, yielded, pending, files, call>>

\* if (path === null)
IsSkipped(path) == path = Null

\* variant: the write is started but not awaited
StartWrite_NoAwait(i, path, entry, soFar) ==
    /\ pending' = Append(pending, [i |-> i, path |-> path, content |-> entry.source])
    /\ log' = soFar \o << Ev("writeStart", i, path), Ev("request", i + 1, "next") >>
    /\ pc' = "fs_await_next"

\* await Deno.writeTextFile(path, entry.source): the loop is suspended until
\* the write settles
StartWrite(i, path, entry, soFar) ==
    /\ pending' = Append(pending, [i |-> i, path |-> path, content |-> entry.source])
    /\ log' = Append(soFar, Ev("writeStart", i, path))
    /\ pc' = "fs_await_write"

FsNextEntry ==
    /\ pc = "fs_await_next"
    /\ Len(yielded) < MaxEntries
    /\ \E entry \in Entries :
        LET i    == Len(yielded) + 1
            path == getFilePathToSave(entry.specifier, args.outputTo.dir)
        IN /\ yielded' = Append(yielded, entry)
           /\ IF path = AssertionError
              THEN /\ Catch(AssertError, log)
                   /\ UNCHANGED pending
              ELSE IF IsSkipped(path)
              THEN /\ log' = log \o << Ev("warn", i, entry.specifier),
                                       Ev("request", i + 1, "next") >>
                   /\ UNCHANGED <<pc, pending, raised>>
              ELSE /\ StartWrite(i, path.s, entry, log)
                   /\ UNCHANGED raised
    /\ UNCHANGED <<rawArgs, args, exitCode, api, files, call>>

WriteResolves ==
    /\ pc = "fs_await_write"
    /\ pending # <<>>
    /\ LET w == Head(pending)
       IN /\ files' = {f \in files : f.path # w.path}
                        \cup {[path |-> w.path, content |-> w.content]}
          /\ log' = log \o << Ev("writeEnd", w.i, [path |-> w.path, content |-> w.content]),
                              Ev("info", w.i, w.path),
                              Ev("request", w.i + 1, "next") >>
    /\ pending' = Tail(pending)
    /\ pc' = "fs_await_next"
    /\ UNCHANGED <<rawArgs, args, exitCode, api, yielded, raised, call>>

WriteRejects ==
    /\ pc = "fs_await_write"
    /\ pending # <<>>
    /\ pending' = Tail(pending)
    /\ Catch(FsError("write"), log)
    /\ UNCHANGED <<rawArgs, args, exitCode, api, yielded, files, call>>

FsNextDone ==
    /\ pc = "fs_await_next"
    /\ log' = Append(log, Ev("succeed", 0, "Done"))
    /\ pc' = "returned"
    /\ UNCHANGED <<rawArgs, args, exitCode, api, yielded, pending, files, raised, call>>

FsNextThrows ==
    /\ pc = "fs_await_next"
    /\ Catch(ApiError("iterate"), log)
    /\ UNCHANGED <<rawArgs, args, exitCode, api, yielded, pending, files, call>>

Next ==
    \/ RunHelp
    \/ RunUsageError
    \/ RunDownload
    \/ DownloadDeploymentResolves
    \/ DownloadDeploymentRejects
    \/ StdoutNextEntry
    \/ StdoutNextDone
    \/ StdoutNextThrows
    \/ MkdirResolves
    \/ MkdirRejects
    \/ FsNextEntry
    \/ WriteResolves
    \/ WriteRejects
    \/ FsNextDone
    \/ FsNextThrows

Spec == Init /\ [][Next]_vars

(***************************************************************************)
(* getFilePathToSave called directly, on every specifier path of at most   *)
(* MaxPathLen tokens and a few output directories                          *)
(***************************************************************************)
PathTokens == {"/", ".", "src", "a", "%2F", "%2e"}

RECURSIVE SeqsUpTo(_, _)
SeqsUpTo(S, n) ==
    IF n = 0 THEN {<<>>}
    ELSE LET shorter == SeqsUpTo(S, n - 1)
         IN shorter \cup {Append(s, x) : s \in shorter, x \in S}

RawPaths == {<<"/">> \o s : s \in SeqsUpTo(PathTokens, MaxPathLen - 1)}

Specifiers ==
    {FileUrl(raw) : raw \in RawPaths} \cup {HttpsUrl(<<"/", "a">>)}

Dirs == { <<".", "/", "out">>, <<"out">>, <<"/", "tmp">> }

InitPath ==
    /\ rawArgs = [help |-> FALSE, stdout |-> FALSE, outputDir |-> Undefined,
                  token |-> Undefined, positional |-> <<>>]
    /\ pc = "call"
    /\ args = NoArgs
    /\ exitCode = NotExited
    /\ api = NoApi
    /\ yielded = <<>>
    /\ pending = <<>>
    /\ files = {}
    /\ log = <<>>
    /\ raised = NoError
    /\ call \in [specifier : Specifiers, dir : Dirs, result : {NotCalled}]

CallGetFilePathToSave ==
    /\ pc = "call"
    /\ call.result = NotCalled
    /\ call' = [call EXCEPT !.result = getFilePathToSave(call.specifier, call.dir)]
    /\ pc' = "called"
    /\ UNCHANGED <<rawArgs, args, exitCode, api, yielded, pending, files, log, raised>>

NextPath == CallGetFilePathToSave

SpecPath == InitPath /\ [][NextPath]_vars

(***************************************************************************)
(* Properties                                                              *)
(***************************************************************************)
Parsed == args.mode # "unparsed"

Count(ev, i) == Cardinality({k \in 1..Len(log) : log[k].ev = ev /\ log[k].i = i})

CountAll(ev) == Cardinality({k \in 1..Len(log) : log[k].ev = ev})

IsLocal(entry) == entry.specifier.protocol = "file:"

\* the text of a positional argument as the user typed it
TypedText(v) == IF v.t = "number" /\ v.n = 42 THEN <<"4", "2">> ELSE v.s

\* C1: whenever the help flag is set the arguments resolve to the help
\* action, whatever the other flags are and with or without a deployment id;
\* the usage error is never raised.
C1_HelpTakesPrecedence ==
    (Parsed /\ rawArgs.help) =>
        /\ args.mode = "help"
        /\ exitCode # 1
        /\ CountAll("error") = 0

C1_Witness ==
    /\ Parsed /\ rawArgs.help /\ rawArgs.positional = <<>>
    /\ rawArgs.stdout /\ typeof(rawArgs.outputDir) = "string"
    /\ args.mode = "help" /\ exitCode = 0

\* C2: without help, with a deployment id and with the stdout flag set, the
\* result is a download to stdout, with or without an output directory,
\* carrying the first positional as deployment id and the explicit token.
C2_StdoutWins ==
    (Parsed /\ ~rawArgs.help /\ rawArgs.positional # <<>> /\ rawArgs.stdout) =>
        /\ args.mode = "download"
        /\ args.outputTo.to = "stdout"
        /\ args.deploymentId = TypedText(rawArgs.positional[1])
        /\ args.token = IF typeof(rawArgs.token) = "string"
                        THEN rawArgs.token ELSE Null

C2_Witness ==
    /\ Parsed /\ ~rawArgs.help /\ rawArgs.stdout
    /\ rawArgs.outputDir = Str(<<".", "/", "out">>)
    /\ rawArgs.token = Str(<<"mytoken">>)
    /\ Len(rawArgs.positional) = 2
    /\ args.mode = "download"
    /\ args.outputTo.to = "stdout"
    /\ args.deploymentId = <<"4", "2">>

\* C3: without help and without a positional argument the subcommand fails
\* with the usage error (exit status 1) and no download action is produced,
\* whatever the stdout, output-dir and token flags are.
C3_MissingIdIsUsageError ==
    (Parsed /\ ~rawArgs.help /\ rawArgs.positional = <<>>) =>
        /\ args.mode = "exit"
        /\ exitCode = 1
        /\ pc = "exited"
        /\ api.via = "none"
        /\ CountAll("error") = 1

C3_Witness ==
    /\ Parsed /\ ~rawArgs.help /\ rawArgs.positional = <<>>
    /\ rawArgs.stdout
    /\ rawArgs.outputDir = Str(<<".", "/", "out">>)
    /\ rawArgs.token = Str(<<"mytoken">>)
    /\ exitCode = 1

\* C4: without help, with a deployment id and without the stdout flag, the
\* output target is the filesystem exactly when the directory flag holds a
\* string, the empty string included, with that string unchanged as the
\* directory; it is stdout when the directory flag is absent.
C4_DirectoryFlag ==
    (Parsed /\ ~rawArgs.help /\ rawArgs.positional # <<>> /\ ~rawArgs.stdout) =>
        /\ args.mode = "download"
        /\ IF typeof(rawArgs.outputDir) = "string"
           THEN /\ args.outputTo.to = "fs"
                /\ args.outputTo.dir = rawArgs.outputDir.s
           ELSE args.outputTo.to = "stdout"

C4_Witness ==
    /\ Parsed /\ ~rawArgs.help /\ ~rawArgs.stdout
    /\ rawArgs.positional # <<>>
    /\ rawArgs.outputDir = Str(<<>>)
    /\ args.mode = "download"
    /\ args.outputTo.to = "fs"
    /\ args.outputTo.dir = <<>>

\* C5: a local-file specifier whose path does not begin with "/src/" always
\* aborts with the assertion failure and is never mapped to a path.
C5_PrefixRequired ==
    ( /\ call.result.t \notin {"none", "pending"}
      /\ call.specifier.protocol = "file:"
      /\ ~StartsWith(UrlPathname(call.specifier.raw), <<"/", "src", "/">>) )
        => call.result = AssertionError

\* the components of a path, "" and "." left out
Components(p) ==
    SelectSeq(SplitSlash(p), LAMBDA seg : seg # <<>> /\ seg # <<".">>)

IsAbsolute(p) == p # <<>> /\ Head(p) = "/"

Inside(p, root) ==
    /\ IsAbsolute(p) = IsAbsolute(root)
    /\ StartsWith(Components(p), Components(root))
    /\ \A k \in 1..Len(Components(p)) : Components(p)[k] # <<".", ".">>

\* C6: every path getFilePathToSave returns for a local-file specifier under
\* "/src/" lies inside the destination root; no such specifier, ".."
\* components after decoding included, yields a path that escapes it.
C6_StaysInsideRoot ==
    ( /\ call.result.t = "path"
      /\ StartsWith(UrlPathname(call.specifier.raw), <<"/", "src", "/">>) )
        => Inside(call.result.s, call.dir)

\* C7: when downloadToFs has consumed the stream to its end, every local
\* entry has caused exactly one write, of its source to its mapped path, and
\* no skip warning; every non-local entry exactly one skip warning and no
\* write; nothing was raised; so writes and skips count the local and the
\* non-local entries.
C7_OneWritePerLocalEntry ==
    (pc = "returned" /\ args.outputTo.to = "fs") =>
        /\ raised = NoError
        /\ \A i \in 1..Len(yielded) :
              IF IsLocal(yielded[i])
              THEN /\ Count("writeEnd", i) = 1
                   /\ Count("writeStart", i) = 1
                   /\ Count("warn", i) = 0
                   /\ \A k \in 1..Len(log) :
                        (log[k].ev = "writeEnd" /\ log[k].i = i) =>
                            /\ log[k].arg.content = yielded[i].source
                            /\ Path(log[k].arg.path) =
                                 getFilePathToSave(yielded[i].specifier,
                                                   args.outputTo.dir)
              ELSE /\ Count("warn", i) = 1
                   /\ Count("writeStart", i) = 0
                   /\ Count("writeEnd", i) = 0
        /\ CountAll("writeEnd") =
             Cardinality({i \in 1..Len(yielded) : IsLocal(yielded[i])})
        /\ CountAll("warn") =
             Cardinality({i \in 1..Len(yielded) : ~IsLocal(yielded[i])})

C7_Witness ==
    /\ pc = "returned" /\ args.outputTo.to = "fs"
    /\ Len(yielded) = 2
    /\ IsLocal(yielded[1]) /\ ~IsLocal(yielded[2])
    /\ CountAll("writeEnd") = 1
    /\ CountAll("warn") = 1

IsProcessed(e) == e.i > 0 /\ e.ev \in {"console.log", "warn", "writeEnd"}

Processed == SelectSeq(log, IsProcessed)

\* C8: entries are processed one at a time in stream order: at most one
\* write is in flight, the prints, writes and skips follow the stream order,
\* and once a write has started no further entry is requested before that
\* write and its notification are done.
C8_StrictOrder ==
    /\ Len(pending) <= 1
    /\ \A j \in 1..Len(Processed) :
          /\ Processed[j].i = j
          /\ Processed[j].ev = "console.log" => Processed[j].arg = yielded[j]
          /\ Processed[j].ev = "warn" => Processed[j].arg = yielded[j].specifier
          /\ Processed[j].ev = "writeEnd" =>
                Processed[j].arg.content = yielded[j].source
    /\ \A k \in 1..Len(log) :
          (log[k].ev = "request" /\ log[k].i > 1) =>
              \E m \in 1..(k - 1) :
                  IsProcessed(log[m]) /\ log[m].i = log[k].i - 1
    /\ \A m \in 1..Len(log) : \A k \in (m + 1)..Len(log) :
          (log[m].ev = "writeStart" /\ log[k].ev = "request") =>
              /\ \E n \in (m + 1)..(k - 1) :
                    log[n].ev = "writeEnd" /\ log[n].i = log[m].i
              /\ \E n \in (m + 1)..(k - 1) :
                    log[n].ev = "info" /\ log[n].i = log[m].i

C8_Witness ==
    /\ args.mode = "download" /\ args.outputTo.to = "fs"
    /\ Count("writeEnd", 2) = 1
    /\ Count("request", 3) = 1
    /\ pending = <<>>

\* C9: in either output mode a transport failure raised while iterating the
\* stream is reported to the user and then re-raised.
C9_TransportFailureReported ==
    raised = ApiError("iterate") =>
        /\ pc = "rejected"
        /\ log # <<>>
        /\ Last(log).ev = "fail"

\* C10: the client is built from the explicit token whenever a token was
\* supplied, the empty string included; the provisioner is used only when no
\* token was supplied.
C10_ExplicitTokenUsed ==
    api.via # "none" =>
        IF typeof(rawArgs.token) = "string"
        THEN api.via = "fromToken" /\ api.token = rawArgs.token.s
        ELSE api.via = "withTokenProvisioner"

====
